---- MODULE Spec2Model ----
(***************************************************************************)
(* Case-conversion utilities of the repository:                            *)
(*   src/refined_prompt.js  : toCamelCase, toDotCase, toKebabCase          *)
(*   src/unnamed/part_000   : toCamelCase (the exported one)               *)
(* A JavaScript string is a sequence of one-character strings.  Every      *)
(* function is pure; a behaviour draws one input value, calls one of the   *)
(* functions on it and records what the call returned or threw.            *)
(***************************************************************************)
EXTENDS Naturals, Sequences, FiniteSets

VARIABLES input, called, result, again

vars == <<input, called, result, again>>

\* Longest input string drawn.
MaxLen == 5

-----------------------------------------------------------------------------
(* Characters *)

LowerLetters == {"a", "b"}
UpperLetters == {"A", "B"}
Digits == {"1"}
WhiteSpace == {" "}

\* [a-zA-Z0-9]
AlphaNumeric == LowerLetters \cup UpperLetters \cup Digits

\* The characters input strings are drawn from: a lowercase letter, an
\* uppercase letter, a digit, a blank, and the punctuation the functions
\* treat differently.
Alphabet == {"a", "B", "1", " ", "-", "_", ".", "!"}

\* String.prototype.toLowerCase on one character
charToLowerCase(c) ==
    CASE c = "A" -> "a"
      [] c = "B" -> "b"
      [] OTHER -> c

\* String.prototype.toUpperCase on one character
charToUpperCase(c) ==
    CASE c = "a" -> "A"
      [] c = "b" -> "B"
      [] OTHER -> c

-----------------------------------------------------------------------------
(* JavaScript values and call outcomes *)

JSString(s) == [tag |-> "string", chars |-> s]
JSNull == [tag |-> "null", chars |-> <<>>]
JSUndefined == [tag |-> "undefined", chars |-> <<>>]
JSNumber == [tag |-> "number", chars |-> <<>>]

\* the typeof operator: typeof null is "object"
typeOf(v) == IF v.tag = "null" THEN "object" ELSE v.tag

Return(s) == [kind |-> "return", value |-> s, error |-> "none", message |-> ""]
Throw(e, m) == [kind |-> "throw", value |-> <<>>, error |-> e, message |-> m]
NoResult == [kind |-> "none", value |-> <<>>, error |-> "none", message |-> ""]

Strings == UNION {[1..n -> Alphabet] : n \in 0..MaxLen}
Inputs == {JSString(s) : s \in Strings} \cup {JSNull, JSUndefined, JSNumber}

-----------------------------------------------------------------------------
(* String and array primitives *)

toLowerCase(s) == [i \in 1..Len(s) |-> charToLowerCase(s[i])]

toUpperCase(s) == [i \in 1..Len(s) |-> charToUpperCase(s[i])]

\* word.charAt(0): the empty string when the word is empty
charAt0(s) == IF Len(s) = 0 THEN <<>> ELSE <<s[1]>>

\* word.slice(1)
slice1(s) == IF Len(s) = 0 THEN <<>> ELSE Tail(s)

RECURSIVE trimStart(_)
trimStart(s) ==
    IF Len(s) > 0 /\ s[1] \in WhiteSpace THEN trimStart(Tail(s)) ELSE s

RECURSIVE trimEnd(_)
trimEnd(s) ==
    IF Len(s) > 0 /\ s[Len(s)] \in WhiteSpace
    THEN trimEnd(SubSeq(s, 1, Len(s) - 1))
    ELSE s

\* String.prototype.trim
trim(s) == trimEnd(trimStart(s))

\* str.split(/[sep]+/): the pieces between maximal runs of separator
\* characters, the empty pieces at either end included.
RECURSIVE splitFrom(_, _, _, _, _)
splitFrom(s, i, cur, acc, sep) ==
    IF i > Len(s) THEN Append(acc, cur)
    ELSE IF s[i] \in sep
         THEN IF i > 1 /\ s[i - 1] \in sep
              THEN splitFrom(s, i + 1, cur, acc, sep)
              ELSE splitFrom(s, i + 1, <<>>, Append(acc, cur), sep)
         ELSE splitFrom(s, i + 1, Append(cur, s[i]), acc, sep)

split(s, sep) == splitFrom(s, 1, <<>>, <<>>, sep)

\* Fault: the filter keeps the empty pieces.
filterNothing(ws) == ws

\* .filter(word => word.length > 0)
filterNonEmpty(ws) == SelectSeq(ws, LAMBDA w : Len(w) > 0)

\* Array.prototype.join
RECURSIVE join(_, _)
join(words, sep) ==
    IF Len(words) = 0 THEN <<>>
    ELSE IF Len(words) = 1 THEN words[1]
    ELSE words[1] \o sep \o join(Tail(words), sep)

-----------------------------------------------------------------------------
(* refined_prompt.js *)

\* /[^a-zA-Z0-9]/ over the characters drawn
NonAlphaNumeric == (Alphabet \cup AlphaNumeric) \ AlphaNumeric

\* str.trim().split(/[^a-zA-Z0-9]+/).filter(word => word.length > 0)
words(s) == filterNonEmpty(split(trim(s), NonAlphaNumeric))

\* Fault: the rest of the word keeps its case.
capitalizeKeepRest(word) == toUpperCase(charAt0(word)) \o slice1(word)

\* word.charAt(0).toUpperCase() + word.slice(1).toLowerCase()
capitalize(word) == toUpperCase(charAt0(word)) \o toLowerCase(slice1(word))

\* the map callback of toCamelCase
camelWord(word, index) ==
    IF index = 0 THEN toLowerCase(word) ELSE capitalize(word)

camelMap(ws) == [i \in 1..Len(ws) |-> camelWord(ws[i], i - 1)]

toCamelCase(str) ==
    IF typeOf(str) # "string"
    THEN Throw("TypeError", "Input must be a string")
    ELSE IF Len(trim(str.chars)) = 0
    THEN Throw("Error", "Input string cannot be empty")
    ELSE IF Len(words(str.chars)) = 0
    THEN Throw("Error", "Input string must contain at least one alphanumeric character")
    ELSE Return(join(camelMap(words(str.chars)), <<>>))

\* Fault: the words keep their case.
dotMapKeepCase(ws) == ws

\* words.map(word => word.toLowerCase())
dotMap(ws) == [i \in 1..Len(ws) |-> toLowerCase(ws[i])]

\* Fault: a variant that also rejects a trimmed input starting with a digit.
toDotCaseNoLeadingDigit(str) ==
    IF typeOf(str) # "string"
    THEN Throw("TypeError", "Input must be a string")
    ELSE IF Len(trim(str.chars)) = 0
    THEN Throw("Error", "Input string cannot be empty")
    ELSE IF trim(str.chars)[1] \in Digits
    THEN Throw("Error", "Input string cannot start with a digit")
    ELSE IF Len(words(str.chars)) = 0
    THEN Throw("Error", "Input string must contain at least one alphanumeric character")
    ELSE Return(join(dotMap(words(str.chars)), <<".">>))

toDotCase(str) ==
    IF typeOf(str) # "string"
    THEN Throw("TypeError", "Input must be a string")
    ELSE IF Len(trim(str.chars)) = 0
    THEN Throw("Error", "Input string cannot be empty")
    ELSE IF Len(words(str.chars)) = 0
    THEN Throw("Error", "Input string must contain at least one alphanumeric character")
    ELSE Return(join(dotMap(words(str.chars)), <<".">>))

\* .replace(/([a-z])([A-Z])/g, '$1-$2'): matches are found left to right
\* and do not overlap.
RECURSIVE hyphenateBoundaries(_)
hyphenateBoundaries(s) ==
    IF Len(s) = 0 THEN <<>>
    ELSE IF Len(s) >= 2 /\ s[1] \in LowerLetters /\ s[2] \in UpperLetters
    THEN <<s[1], "-", s[2]>> \o hyphenateBoundaries(SubSeq(s, 3, Len(s)))
    ELSE <<s[1]>> \o hyphenateBoundaries(Tail(s))

\* .replace(/[set]+/g, by): every maximal run of characters of set becomes by
RECURSIVE replaceRuns(_, _, _)
replaceRuns(s, set, by) ==
    IF Len(s) = 0 THEN <<>>
    ELSE IF s[1] \in set
    THEN IF Len(s) >= 2 /\ s[2] \in set
         THEN replaceRuns(Tail(s), set, by)
         ELSE by \o replaceRuns(Tail(s), set, by)
    ELSE <<s[1]>> \o replaceRuns(Tail(s), set, by)

\* .replace(/[\s_]+/g, '-')
separatorsToHyphens(s) == replaceRuns(s, WhiteSpace \cup {"_"}, <<"-">>)

\* Fault: runs of hyphens are left as they are.
collapseNothing(s) == s

\* .replace(/-+/g, '-')
collapseHyphens(s) == replaceRuns(s, {"-"}, <<"-">>)

RECURSIVE stripLeadingHyphens(_)
stripLeadingHyphens(s) ==
    IF Len(s) > 0 /\ s[1] = "-" THEN stripLeadingHyphens(Tail(s)) ELSE s

RECURSIVE stripTrailingHyphens(_)
stripTrailingHyphens(s) ==
    IF Len(s) > 0 /\ s[Len(s)] = "-"
    THEN stripTrailingHyphens(SubSeq(s, 1, Len(s) - 1))
    ELSE s

\* .replace(/^-+|-+$/g, '')
stripHyphens(s) == stripTrailingHyphens(stripLeadingHyphens(s))

\* the chain of the return statement, in the order the code applies it
kebabNormalize(s) ==
    stripHyphens(
        collapseHyphens(
            separatorsToHyphens(
                hyphenateBoundaries(
                    toLowerCase(trim(s))))))

\* Fault: the typeof check comes before the null check.
toKebabCaseTypeFirst(value) ==
    IF typeOf(value) # "string"
    THEN Throw("TypeError", "Input must be a string")
    ELSE IF value.tag = "null" \/ value.tag = "undefined"
    THEN Throw("TypeError", "Input must be a non-null string")
    ELSE IF Len(trim(value.chars)) = 0
    THEN Throw("TypeError", "Input cannot be empty or whitespace only")
    ELSE Return(kebabNormalize(value.chars))

toKebabCase(value) ==
    IF value.tag = "null" \/ value.tag = "undefined"
    THEN Throw("TypeError", "Input must be a non-null string")
    ELSE IF typeOf(value) # "string"
    THEN Throw("TypeError", "Input must be a string")
    ELSE IF Len(trim(value.chars)) = 0
    THEN Throw("TypeError", "Input cannot be empty or whitespace only")
    ELSE Return(kebabNormalize(value.chars))

-----------------------------------------------------------------------------
(* unnamed/part_000 *)

\* /[\s\-_]/
WordSeparators == WhiteSpace \cup {"-", "_"}

\* the map callback of the exported toCamelCase
part000Word(word, index) ==
    IF index = 0
    THEN toLowerCase(word)
    ELSE toUpperCase(charAt0(word)) \o toLowerCase(slice1(word))

part000Map(ws) == [i \in 1..Len(ws) |-> part000Word(ws[i], i - 1)]

\* The exported toCamelCase.  It validates nothing: str.trim of a value
\* that is not a string is a TypeError of the runtime.
toCamelCase_part000(str) ==
    IF str.tag = "null"
    THEN Throw("TypeError", "Cannot read properties of null (reading 'trim')")
    ELSE IF str.tag = "undefined"
    THEN Throw("TypeError", "Cannot read properties of undefined (reading 'trim')")
    ELSE IF typeOf(str) # "string"
    THEN Throw("TypeError", "str.trim is not a function")
    ELSE Return(join(part000Map(split(trim(str.chars), WordSeparators)), <<>>))

-----------------------------------------------------------------------------
(* Behaviours *)

Init ==
    /\ input \in Inputs
    /\ called = "none"
    /\ result = NoResult
    /\ again = NoResult

CallToCamelCase ==
    /\ called = "none"
    /\ called' = "toCamelCase"
    /\ result' = toCamelCase(input)
    /\ UNCHANGED <<input, again>>

CallToDotCase ==
    /\ called = "none"
    /\ called' = "toDotCase"
    /\ result' = toDotCase(input)
    /\ UNCHANGED <<input, again>>

CallToKebabCase ==
    /\ called = "none"
    /\ called' = "toKebabCase"
    /\ result' = toKebabCase(input)
    /\ UNCHANGED <<input, again>>

CallToCamelCase_part000 ==
    /\ called = "none"
    /\ called' = "toCamelCase_part000"
    /\ result' = toCamelCase_part000(input)
    /\ UNCHANGED <<input, again>>

\* toDotCase applied to what toDotCase returned
ReapplyToDotCase ==
    /\ called = "toDotCase"
    /\ result.kind = "return"
    /\ called' = "toDotCase.toDotCase"
    /\ again' = toDotCase(JSString(result.value))
    /\ UNCHANGED <<input, result>>

Next ==
    \/ CallToCamelCase
    \/ CallToDotCase
    \/ CallToKebabCase
    \/ CallToCamelCase_part000
    \/ ReapplyToDotCase

Spec == Init /\ [][Next]_vars

-----------------------------------------------------------------------------
(* Vocabulary of the properties, stated on the input and the outcome alone *)

IsString == input.tag = "string"

\* every character is whitespace (the empty string included)
Blank(s) == \A i \in 1..Len(s) : s[i] \in WhiteSpace

HasAlphaNumeric(s) == \E i \in 1..Len(s) : s[i] \in AlphaNumeric

\* s without its leading and trailing whitespace
Trimmed(s) ==
    IF Blank(s) THEN <<>>
    ELSE LET solid == {i \in 1..Len(s) : s[i] \notin WhiteSpace}
             lo == CHOOSE i \in solid : \A j \in solid : i <= j
             hi == CHOOSE i \in solid : \A j \in solid : j <= i
         IN  SubSeq(s, lo, hi)

\* the maximal runs of characters of class in s, as <<first, last>> positions
Runs(s, class) ==
    {r \in (1..Len(s)) \X (1..Len(s)) :
        /\ r[1] <= r[2]
        /\ \A k \in r[1]..r[2] : s[k] \in class
        /\ (r[1] = 1 \/ s[r[1] - 1] \notin class)
        /\ (r[2] = Len(s) \/ s[r[2] + 1] \notin class)}

\* the k-th run from the left
RunAt(s, class, k) ==
    CHOOSE r \in Runs(s, class) :
        Cardinality({q \in Runs(s, class) : q[1] < r[1]}) = k - 1

TokenAt(s, class, k) ==
    LET r == RunAt(s, class, k) IN SubSeq(s, r[1], r[2])

\* first token lowercased; a later token with its first character
\* uppercased and the others lowercased
CamelToken(tok, k) ==
    [x \in 1..Len(tok) |->
        IF k > 1 /\ x = 1 THEN charToUpperCase(tok[x]) ELSE charToLowerCase(tok[x])]

RECURSIVE CamelUpTo(_, _, _)
CamelUpTo(s, class, k) ==
    IF k = 0 THEN <<>>
    ELSE CamelUpTo(s, class, k - 1) \o CamelToken(TokenAt(s, class, k), k)

ExpectedCamel(s, class) == CamelUpTo(s, class, Cardinality(Runs(s, class)))

\* ^[a-z0-9]+(<sep>[a-z0-9]+)*$
MatchesJoined(s, sep) ==
    /\ Len(s) >= 1
    /\ \A i \in 1..Len(s) : s[i] \in LowerLetters \cup Digits \cup {sep}
    /\ s[1] # sep
    /\ s[Len(s)] # sep
    /\ \A i \in 1..(Len(s) - 1) : ~(s[i] = sep /\ s[i + 1] = sep)

Contains(s, c) == \E i \in 1..Len(s) : s[i] = c

-----------------------------------------------------------------------------
(* Properties *)

\* C1: whenever toCamelCase of refined_prompt.js returns, the result is the
\* first maximal alphanumeric run of the trimmed input lowercased, followed
\* by every later run with its first character uppercased and the rest
\* lowercased, in left-to-right order and with nothing in between.
C1_CamelCaseOutput ==
    (called = "toCamelCase" /\ result.kind = "return")
        => result.value = ExpectedCamel(Trimmed(input.chars), AlphaNumeric)

\* toCamelCase returned for an input whose later token starts lowercase and
\* has an uppercase letter further on.
C1_Witness ==
    /\ called = "toCamelCase"
    /\ result.kind = "return"
    /\ \E r \in Runs(input.chars, AlphaNumeric) :
          /\ \E q \in Runs(input.chars, AlphaNumeric) : q[1] < r[1]
          /\ r[1] < r[2]
          /\ input.chars[r[1]] \in LowerLetters
          /\ input.chars[r[2]] \in UpperLetters

\* C2: toCamelCase and toDotCase of refined_prompt.js throw the TypeError for
\* a non-string, else the empty-input error for a blank string, else the
\* no-alphanumeric error for a string without letter or digit, and return
\* (a non-empty string) only in the remaining case.
C2_ValidationOrder ==
    called \in {"toCamelCase", "toDotCase"} =>
        /\ ~IsString =>
              result = Throw("TypeError", "Input must be a string")
        /\ (IsString /\ Blank(input.chars)) =>
              result = Throw("Error", "Input string cannot be empty")
        /\ (IsString /\ ~Blank(input.chars) /\ ~HasAlphaNumeric(input.chars)) =>
              result = Throw("Error",
                  "Input string must contain at least one alphanumeric character")
        /\ result.kind = "return" =>
              (IsString /\ HasAlphaNumeric(input.chars) /\ Len(result.value) > 0)

\* toDotCase rejected a non-blank string of punctuation only.
C2_Witness ==
    /\ called = "toDotCase"
    /\ IsString
    /\ ~Blank(input.chars)
    /\ ~HasAlphaNumeric(input.chars)
    /\ result.kind = "throw"

\* C3: toKebabCase puts a hyphen at every camelCase boundary: where the
\* input has a lowercase letter immediately followed by an uppercase letter,
\* the output has the two lowercased letters with a hyphen between them.
C3_HyphenAtCamelBoundary ==
    (called = "toKebabCase" /\ result.kind = "return") =>
        \A i \in 1..(Len(input.chars) - 1) :
            (input.chars[i] \in LowerLetters /\ input.chars[i + 1] \in UpperLetters) =>
                \E k \in 1..(Len(result.value) - 2) :
                    /\ result.value[k] = input.chars[i]
                    /\ result.value[k + 1] = "-"
                    /\ result.value[k + 2] = charToLowerCase(input.chars[i + 1])

\* C4 as claimed: every string toKebabCase returns is empty or matches
\* ^[a-z0-9]+(-[a-z0-9]+)*$.
C4_KebabPatternAnyInput ==
    (called = "toKebabCase" /\ result.kind = "return") =>
        (result.value = <<>> \/ MatchesJoined(result.value, "-"))

\* C4 amended: for an input made only of ASCII letters, digits, whitespace,
\* underscores and hyphens, the string toKebabCase returns is empty or
\* matches ^[a-z0-9]+(-[a-z0-9]+)*$.
C4_KebabPattern ==
    (/\ called = "toKebabCase"
     /\ result.kind = "return"
     /\ \A i \in 1..Len(input.chars) :
            input.chars[i] \in AlphaNumeric \cup WhiteSpace \cup {"_", "-"}) =>
        (result.value = <<>> \/ MatchesJoined(result.value, "-"))

\* toKebabCase returned a hyphenated string for an input in which an
\* underscore and a hyphen meet between two words.
C4_Witness ==
    /\ called = "toKebabCase"
    /\ result.kind = "return"
    /\ \A i \in 1..Len(input.chars) :
           input.chars[i] \in AlphaNumeric \cup WhiteSpace \cup {"_", "-"}
    /\ \E i \in 2..(Len(input.chars) - 2) :
           /\ input.chars[i - 1] \in AlphaNumeric
           /\ {input.chars[i], input.chars[i + 1]} = {"_", "-"}
           /\ input.chars[i + 2] \in AlphaNumeric
    /\ Contains(result.value, "-")

\* C5: for both toCamelCase implementations and every string input with an
\* ASCII letter or digit, the output has no whitespace, hyphen, underscore
\* or dot, and does not start with an uppercase letter.
C5_CamelCaseShape ==
    (/\ called \in {"toCamelCase", "toCamelCase_part000"}
     /\ IsString
     /\ HasAlphaNumeric(input.chars)) =>
        /\ result.kind = "return"
        /\ \A i \in 1..Len(result.value) :
               result.value[i] \notin WhiteSpace \cup {"-", "_", "."}
        /\ Len(result.value) > 0 => result.value[1] \notin UpperLetters

\* C6: both toCamelCase implementations throw the empty-input error for a
\* string that is empty or whitespace-only, and return nothing.
C6_EmptyInputRejected ==
    (/\ called \in {"toCamelCase", "toCamelCase_part000"}
     /\ IsString
     /\ Blank(input.chars)) =>
        /\ result.kind = "throw"
        /\ result.message = "Input string cannot be empty"

\* C7: every string toDotCase returns matches ^[a-z0-9]+(\.[a-z0-9]+)*$.
C7_DotPattern ==
    (called = "toDotCase" /\ result.kind = "return") =>
        MatchesJoined(result.value, ".")

\* toDotCase returned a dotted string for an input with an uppercase
\* letter and a separator at one of its ends.
C7_Witness ==
    /\ called = "toDotCase"
    /\ result.kind = "return"
    /\ Contains(result.value, ".")
    /\ \E i \in 1..Len(input.chars) : input.chars[i] \in UpperLetters
    /\ (input.chars[1] \notin AlphaNumeric
        \/ input.chars[Len(input.chars)] \notin AlphaNumeric)

\* C8: toKebabCase throws the non-null TypeError for null and undefined, a
\* TypeError with another message for any other non-string, and the
\* empty-input error for a blank string, each check taking precedence over
\* the next; it returns in none of these cases.
C8_KebabValidation ==
    called = "toKebabCase" =>
        /\ input.tag \in {"null", "undefined"} =>
              result = Throw("TypeError", "Input must be a non-null string")
        /\ (input.tag \notin {"null", "undefined"} /\ ~IsString) =>
              /\ result = Throw("TypeError", "Input must be a string")
              /\ result.message # "Input must be a non-null string"
        /\ (IsString /\ Blank(input.chars)) =>
              /\ result.kind = "throw"
              /\ result.message = "Input cannot be empty or whitespace only"

\* toKebabCase rejected null, which also fails the typeof check.
C8_Witness ==
    /\ called = "toKebabCase"
    /\ input = JSNull
    /\ typeOf(input) # "string"
    /\ result.kind = "throw"

\* C9: the exported toCamelCase lowercases only the first character of a
\* separator-free input and keeps its interior capitals ("HelloWorld" gives
\* "helloWorld"); for an input with separators it gives the first word
\* lowercased and each later word capitalized.  The words are the runs
\* between separators; the second part is stated for inputs that, once
\* trimmed, start with a word, as the documented examples do.
C9_ExportedCamelCase ==
    (/\ called = "toCamelCase_part000"
     /\ IsString
     /\ HasAlphaNumeric(input.chars)) =>
        /\ result.kind = "return"
        /\ (\A i \in 1..Len(input.chars) : input.chars[i] \in AlphaNumeric) =>
               result.value =
                   <<charToLowerCase(input.chars[1])>> \o Tail(input.chars)
        /\ (/\ \E i \in 1..Len(input.chars) : input.chars[i] \in WordSeparators
            /\ Trimmed(input.chars)[1] \notin WordSeparators) =>
               result.value =
                   ExpectedCamel(Trimmed(input.chars), Alphabet \ WordSeparators)

\* C10: toDotCase applied to a string toDotCase returned returns that same
\* string.
C10_DotCaseIdempotent ==
    called = "toDotCase.toDotCase" =>
        /\ again.kind = "return"
        /\ again.value = result.value

\* toDotCase was applied again to a dotted result that differs from the
\* original input.
C10_Witness ==
    /\ called = "toDotCase.toDotCase"
    /\ Contains(result.value, ".")
    /\ result.value # input.chars
    /\ again.kind = "return"

====
